---- MODULE Spec2Model ----
(***************************************************************************)
(* The Sudoku session of frontend/src/components/Game.jsx (src/unnamed/    *)
(* part_002): the React state of the Game component, its event handlers,   *)
(* its effects, the 1 s interval and the 100 ms win-check timeouts.        *)
(*                                                                         *)
(* Granularity: one action is one browser task: an event handler (or a     *)
(* timer callback, or the arrival of a query result), the render it causes *)
(* and the effects of that render.  Handlers therefore always read the     *)
(* state of the latest render, while a timeout callback reads the values   *)
(* its closure captured when it was scheduled.                             *)
(***************************************************************************)
EXTENDS Integers, Sequences, FiniteSets, TLC

\* ---------------------------------------------------------------- bounds
\* Wrong placements are explored up to this many mistakes.
MaxMistakes == 1
\* Correct placements are explored up to this value of correctAnswers.
MaxCorrect == 3
\* The clock is explored up to this many seconds.
MaxTimer == 1
\* At most this many 100 ms win checks are pending at once.
MaxPending == 2
\* At most this many puzzles are loaded in one run (sessions).
MaxGames == 2

\* ------------------------------------------------------- program constants
N == 9
MaxHints == 3
BASE_SCORE == 10000
CORRECT_ANSWER_BONUS == 100
MISTAKE_PENALTY == 300
HINT_PENALTY == 800
PERFECT_BONUS == 2000
TIME_BONUS_3MIN == 3000
TIME_BONUS_5MIN == 2000
TIME_BONUS_10MIN == 1000
TIME_BONUS_15MIN == 500

Idx == 0..(N - 1)
Cells == Idx \X Idx

\* null, for a grid, for selectedCell, for finalScore, for highlightedNumber
Null == <<>>
NoCell == <<>>
NoNumber == 0

Max(a, b) == IF a >= b THEN a ELSE b

\* A copy of grid b with one cell written, lines 215 and 228.
SetCell(b, row, col, value) == [b EXCEPT ![row][col] = value]

\* --------------------------------------------------- the puzzle provider
\* What fetchSudoku returns: a solved grid and the puzzle cut out of it.
SolutionGrid == [i \in Idx |-> [j \in Idx |-> ((i * 3 + (i \div 3) + j) % N) + 1]]

\* The cells the provider's first puzzle leaves empty, and those its next
\* puzzle leaves empty.
Holes == { <<0, 0>>, <<0, 1>> }
NextHoles == { <<0, 1>> }

PuzzleOf(holes) ==
    [i \in Idx |-> [j \in Idx |-> IF <<i, j>> \in holes THEN 0 ELSE SolutionGrid[i][j]]]

\* The responses of GET /game, {puzzle, solution}, in the order served.
Responses == << [puzzle |-> PuzzleOf(Holes), solution |-> SolutionGrid],
               [puzzle |-> PuzzleOf(NextHoles), solution |-> SolutionGrid] >>

\* A response the provider could send whose puzzle contradicts its solution
\* at a pre-filled cell.
InconsistentResponse ==
    [puzzle |-> SetCell(PuzzleOf(Holes), 0, 2, (SolutionGrid[0][2] % N) + 1),
     solution |-> SolutionGrid]

\* A puzzle with three empty cells: one in the first box, one further along
\* its row and one further down its column.
SparseHoles == { <<0, 0>>, <<0, 4>>, <<4, 0>> }
SparseResponse == [puzzle |-> PuzzleOf(SparseHoles), solution |-> SolutionGrid]

\* All the data objects the query can hand to the component.
AllResponses == Responses \o << InconsistentResponse, SparseResponse >>
InconsistentData == Len(Responses) + 1
SparseData == Len(Responses) + 2

\* The response to the fetch after k puzzles were loaded; past the last
\* response listed, the provider serves that one again.
ResponseAfter(k) == IF k + 1 <= Len(Responses) THEN k + 1 ELSE Len(Responses)

\* The difficulties the player picks in the New Game dialog.
DifficultyChoices == {"random", "hard"}

VARIABLES
    appliedData,                             \* the response the effect of lines 87-114 applied last (0: none)
    board,                                   \* line 27
    selectedCell,                            \* line 33
    timer, isTimerRunning, isWon,            \* lines 36-42
    mistakes, hintsUsed, correctAnswers,     \* lines 45-51
    finalScore,                              \* line 57
    showNewGameModal,                        \* line 63
    difficulty,                              \* line 69
    highlightedNumber,                       \* line 75
    isFetching, hasData, queryError,         \* useQuery, line 79
    pendingChecks,                           \* the setTimeout callbacks of line 257, in firing order
    interval,                                \* the setInterval of line 125: 0, or the session that created it
    calcCorrectAnswers,                      \* correctAnswers as captured by the memoized calculateScore
    gameId                                   \* number of puzzles loaded so far

vars == <<appliedData, board, selectedCell, timer, isTimerRunning,
          isWon, mistakes, hintsUsed, correctAnswers, finalScore, showNewGameModal,
          difficulty, highlightedNumber, isFetching, hasData,
          queryError, pendingChecks, interval, calcCorrectAnswers, gameId>>

\* puzzle, solution and initialBoard (useState, lines 20-30) are written only
\* by the effect of lines 87-114, all three from the same response (lines
\* 98-101), and the arrays are never written afterwards: they are the
\* fields of the response applied last.
puzzle == IF appliedData = 0 THEN Null ELSE AllResponses[appliedData].puzzle
solution == IF appliedData = 0 THEN Null ELSE AllResponses[appliedData].solution
initialBoard == IF appliedData = 0 THEN Null ELSE AllResponses[appliedData].puzzle

gridVars == <<appliedData, board>>
statVars == <<mistakes, hintsUsed, correctAnswers>>
clockVars == <<timer, isTimerRunning>>
dialogVars == <<showNewGameModal, difficulty>>
queryVars == <<isFetching, hasData, queryError>>

\* ------------------------------------------------------------ the screens
\* useQuery's isLoading: a fetch in flight and no data for the query key.
isLoading == isFetching /\ ~hasData

\* The early returns of lines 590-634: the grid, the pads and the dialogs
\* are rendered only past them.
GameScreen == ~isLoading /\ ~queryError /\ board # Null /\ solution # Null

\* The New Game dialog is a fixed full-screen overlay (line 1108): while it
\* is open, clicks reach the dialog only.
GameClickable == GameScreen /\ ~showNewGameModal

\* ---------------------------------------------------------------- effects
\* useCallback(calculateScore, [timer, mistakes, hintsUsed, difficulty]),
\* line 491: the callback is re-created, and captures the correctAnswers of
\* that render, only in a render where one of its four dependencies changed.
CalcMemo ==
    calcCorrectAnswers' =
        IF <<timer', mistakes', hintsUsed', difficulty'>> # <<timer, mistakes, hintsUsed, difficulty>>
        THEN correctAnswers'
        ELSE calcCorrectAnswers

\* A variant of the timer effect without the cleanup of line 132: an
\* interval, once created, is never cleared.
TimerEffectNoCleanup ==
    interval' =
        IF <<isTimerRunning', isWon'>> # <<isTimerRunning, isWon>>
        THEN (IF isTimerRunning' /\ ~isWon' THEN gameId' ELSE interval)
        ELSE interval

\* The timer effect, lines 122-133, dependencies [isTimerRunning, isWon]:
\* when one of them changes the old interval is cleared and, if the clock
\* runs and the game is not won, a new one is created.
TimerEffect ==
    interval' =
        IF <<isTimerRunning', isWon'>> # <<isTimerRunning, isWon>>
        THEN (IF isTimerRunning' /\ ~isWon' THEN gameId' ELSE 0)
        ELSE interval

Render == CalcMemo /\ TimerEffect

\* ------------------------------------------------------------------ Init
\* The first render and its mount effects: no puzzle, refetch() in flight.
Init ==
    /\ appliedData = 0 /\ board = Null
    /\ selectedCell = NoCell
    /\ timer = 0 /\ isTimerRunning = FALSE /\ isWon = FALSE
    /\ mistakes = 0 /\ hintsUsed = 0 /\ correctAnswers = 0
    /\ finalScore = Null
    /\ showNewGameModal = FALSE
    /\ difficulty = "random"
    /\ highlightedNumber = NoNumber
    /\ isFetching = TRUE /\ hasData = FALSE /\ queryError = FALSE
    /\ pendingChecks = <<>>
    /\ interval = 0
    /\ calcCorrectAnswers = 0
    /\ gameId = 0

\* ------------------------------------------------- the query and initialize
\* The effect of lines 87-114, run when a new data object arrives.
initialize(data) ==
    /\ appliedData' = data
    /\ board' = AllResponses[data].puzzle
    /\ selectedCell' = NoCell
    /\ timer' = 0
    /\ isTimerRunning' = TRUE
    /\ isWon' = FALSE
    /\ mistakes' = 0
    /\ hintsUsed' = 0
    /\ correctAnswers' = 0
    /\ finalScore' = Null

\* The fetch of line 81 resolves.
FetchSuccess ==
    /\ isFetching
    /\ initialize(ResponseAfter(gameId))
    /\ isFetching' = FALSE /\ hasData' = TRUE /\ queryError' = FALSE
    /\ gameId' = gameId + 1
    /\ UNCHANGED <<dialogVars, highlightedNumber, pendingChecks>>
    /\ Render

\* The fetch of line 81 resolves with the inconsistent response.
FetchInconsistent ==
    /\ isFetching
    /\ initialize(InconsistentData)
    /\ isFetching' = FALSE /\ hasData' = TRUE /\ queryError' = FALSE
    /\ gameId' = gameId + 1
    /\ UNCHANGED <<dialogVars, highlightedNumber, pendingChecks>>
    /\ Render

\* The fetch of line 81 resolves with the puzzle of three empty cells.
FetchSparse ==
    /\ isFetching
    /\ initialize(SparseData)
    /\ isFetching' = FALSE /\ hasData' = TRUE /\ queryError' = FALSE
    /\ gameId' = gameId + 1
    /\ UNCHANGED <<dialogVars, highlightedNumber, pendingChecks>>
    /\ Render

\* The fetch of line 81 fails (after the query client's retry).
FetchError ==
    /\ isFetching
    /\ isFetching' = FALSE /\ queryError' = TRUE
    /\ UNCHANGED <<gridVars, selectedCell, clockVars, isWon, statVars, finalScore,
                   dialogVars, highlightedNumber, hasData, pendingChecks, gameId>>
    /\ Render

\* ------------------------------------------------------------- selection
\* The cells the player clicks on and moves over: the two empty cells of the
\* puzzle and a pre-filled neighbour.
NavCells == { <<0, 0>>, <<0, 1>>, <<0, 2>> }

\* A variant of the cell's onClick that selects a filled cell when the
\* puzzle left it to the player.
handleCellClickSelectsFilled(rowIndex, colIndex) ==
    LET cell == board[rowIndex][colIndex]
        isInitial == initialBoard[rowIndex][colIndex] # 0
    IN  /\ GameClickable
        /\ IF cell # 0 /\ isInitial
           THEN /\ highlightedNumber' = IF highlightedNumber = cell THEN NoNumber ELSE cell
                /\ selectedCell' = NoCell
           ELSE /\ highlightedNumber' = NoNumber
                /\ selectedCell' = <<rowIndex, colIndex>>
        /\ UNCHANGED <<gridVars, clockVars, isWon, statVars, finalScore, dialogVars,
                       queryVars, pendingChecks, gameId>>
        /\ Render

\* A variant of the toggle that never clears the highlight.
ToggleHighlightSticky(highlighted, cell) == cell

\* Lines 762-767: the highlight after a click on a cell that holds a digit.
ToggleHighlight(highlighted, cell) == IF highlighted = cell THEN NoNumber ELSE cell

\* Cell onClick, lines 755-778.
handleCellClick(rowIndex, colIndex) ==
    LET cell == board[rowIndex][colIndex]
        isInitial == initialBoard[rowIndex][colIndex] # 0
    IN  /\ GameClickable
        /\ IF cell # 0
           THEN /\ highlightedNumber' = ToggleHighlight(highlightedNumber, cell)
                /\ selectedCell' = NoCell
           ELSE /\ highlightedNumber' = NoNumber
                /\ selectedCell' = IF ~isInitial \/ cell = 0
                                   THEN <<rowIndex, colIndex>>
                                   ELSE selectedCell
        /\ UNCHANGED <<gridVars, clockVars, isWon, statVars, finalScore, dialogVars,
                       queryVars, pendingChecks, gameId>>
        /\ Render

CellClick == \E c \in NavCells : handleCellClick(c[1], c[2])

\* A variant of isRelated without the 3x3 box.
isRelatedRowCol(rowIndex, colIndex) ==
    /\ selectedCell # NoCell
    /\ (selectedCell[1] = rowIndex \/ selectedCell[2] = colIndex)

\* isRelated, lines 736-741, of the cell the grid is rendering;
\* Math.floor(x / 3) of a non-negative integer is x \div 3.
isRelated(rowIndex, colIndex) ==
    /\ selectedCell # NoCell
    /\ \/ selectedCell[1] = rowIndex
       \/ selectedCell[2] = colIndex
       \/ /\ selectedCell[1] \div 3 = rowIndex \div 3
          /\ selectedCell[2] \div 3 = colIndex \div 3

\* The cells the grid renders as related.
relatedCells == { c \in Cells : isRelated(c[1], c[2]) }

\* handleClickOutside, lines 313-327: a click on the page background.
handleClickOutside ==
    /\ ~showNewGameModal
    /\ selectedCell' = NoCell
    /\ highlightedNumber' = NoNumber
    /\ UNCHANGED <<gridVars, clockVars, isWon, statVars, finalScore, dialogVars,
                   queryVars, pendingChecks, gameId>>
    /\ Render

\* A variant of the arrow keys without the tests at the edges of the board.
ArrowTargetUnbounded(key) ==
    IF key = "ArrowUp" THEN <<selectedCell[1] - 1, selectedCell[2]>>
    ELSE IF key = "ArrowDown" THEN <<selectedCell[1] + 1, selectedCell[2]>>
    ELSE IF key = "ArrowLeft" THEN <<selectedCell[1], selectedCell[2] - 1>>
    ELSE IF key = "ArrowRight" THEN <<selectedCell[1], selectedCell[2] + 1>>
    ELSE selectedCell

\* The arrow keys of handleKeyPress, lines 282 and 293-301.
ArrowTarget(key) ==
    IF key = "ArrowUp" /\ selectedCell[1] > 0 THEN <<selectedCell[1] - 1, selectedCell[2]>>
    ELSE IF key = "ArrowDown" /\ selectedCell[1] < 8 THEN <<selectedCell[1] + 1, selectedCell[2]>>
    ELSE IF key = "ArrowLeft" /\ selectedCell[2] > 0 THEN <<selectedCell[1], selectedCell[2] - 1>>
    ELSE IF key = "ArrowRight" /\ selectedCell[2] < 8 THEN <<selectedCell[1], selectedCell[2] + 1>>
    ELSE selectedCell

ArrowKeys == {"ArrowUp", "ArrowDown", "ArrowLeft", "ArrowRight"}

\* handleKeyPress on an arrow key, lines 282 and 293-301.
moveSelection(key) ==
    /\ selectedCell # NoCell /\ ~isWon
    /\ selectedCell' = ArrowTarget(key)
    /\ UNCHANGED <<gridVars, clockVars, isWon, statVars, finalScore, dialogVars,
                   highlightedNumber, queryVars, pendingChecks, gameId>>
    /\ Render

\* The arrow keys within the cells the player moves over.
handleArrowKey(key) ==
    /\ selectedCell # NoCell
    /\ ArrowTarget(key) \in NavCells
    /\ moveSelection(key)

ArrowKey == \E key \in ArrowKeys : handleArrowKey(key)

\* The arrow keys and the clicks over the whole board.
ArrowKeyAnywhere == \E key \in ArrowKeys : moveSelection(key)

CellClickAnywhere == \E c \in Cells : handleCellClick(c[1], c[2])

\* ------------------------------------------------------------ isValidMove
\* A variant of isValidMove without the loop over the 3x3 box.
isValidMoveNoBox(row, col, value) ==
    IF board = Null \/ value = 0 THEN TRUE
    ELSE IF \E j \in Idx : j # col /\ board[row][j] = value THEN FALSE
    ELSE IF \E i \in Idx : i # row /\ board[i][col] = value THEN FALSE
    ELSE TRUE

\* isValidMove, lines 148-179: the loop over the row, the loop over the
\* column, then the loop over the box, which skips the cells of the box on
\* the cell's row and on its column (line 172).
isValidMove(row, col, value) ==
    IF board = Null \/ value = 0 THEN TRUE
    ELSE IF \E j \in Idx : j # col /\ board[row][j] = value THEN FALSE
    ELSE IF \E i \in Idx : i # row /\ board[i][col] = value THEN FALSE
    ELSE LET boxRow == (row \div 3) * 3
             boxCol == (col \div 3) * 3
         IN  ~(\E i \in boxRow..(boxRow + 2) : \E j \in boxCol..(boxCol + 2) :
                  i # row /\ j # col /\ board[i][j] = value)

\* ------------------------------------------------------ handleNumberInput
\* The comparison loop of lines 259-268 (and of checkWin, lines 188-194).
IsComplete(b, sol) == \A i \in Idx : \A j \in Idx : b[i][j] = sol[i][j]

\* A variant that lets pre-filled cells be edited.
IsPrefilledNever(row, col) == FALSE

\* Line 210: pre-filled cells are not edited.
IsPrefilled(row, col) == initialBoard[row][col] # 0

\* A variant that removes the point without the floor at 0.
RemovePointUnfloored(prev) == prev - 1

\* A variant that keeps the point of a cleared correct answer.
RemovePointKept(prev) == prev

\* Line 225: removing the point of a cleared correct answer.
RemovePoint(prev) == Max(0, prev - 1)

\* A variant that takes a digit already present in the row for the mistake.
IsMistakeByRow(row, col, value) ==
    value # 0 /\ \E j \in Idx : j # col /\ board[row][j] = value

\* Lines 231-241: a placed digit that differs from the solution is a mistake.
IsMistake(row, col, value) ==
    value # 0 /\ solution # Null /\ solution[row][col] # value

\* Lines 215-244 as a function of the board and the two counters it reads.
NumberInputResult(s, row, col, value) ==
    LET cur == s.board[row][col]
        wasCorrect == cur # 0 /\ solution # Null /\ solution[row][col] = cur
        wasEmpty == cur = 0
        wasWrong == cur # 0 /\ cur # solution[row][col]
    IN  IF cur = value
        THEN [board |-> SetCell(s.board, row, col, 0),
              correctAnswers |-> IF wasCorrect /\ initialBoard[row][col] = 0
                                 THEN RemovePoint(s.correctAnswers)
                                 ELSE s.correctAnswers,
              mistakes |-> s.mistakes]
        ELSE [board |-> SetCell(s.board, row, col, value),
              correctAnswers |-> IF value # 0 /\ solution # Null /\ solution[row][col] = value
                                    /\ (wasEmpty \/ wasWrong)
                                 THEN s.correctAnswers + 1
                                 ELSE s.correctAnswers,
              mistakes |-> IF IsMistake(row, col, value)
                           THEN s.mistakes + 1
                           ELSE s.mistakes]

\* The board and counters handleNumberInput reads.
InputState == [board |-> board, correctAnswers |-> correctAnswers, mistakes |-> mistakes]

\* A variant of the guards without the test of line 210.
CanInputPrefilled == board # Null /\ selectedCell # NoCell /\ ~isWon

\* The guards of lines 205-212.
CanInput ==
    /\ board # Null /\ selectedCell # NoCell /\ ~isWon
    /\ ~IsPrefilled(selectedCell[1], selectedCell[2])

\* A variant that clears the highlight after every input.
InputHighlightNone(value) == NoNumber

\* Lines 248-254: the highlight after an input.
InputHighlight(value) == IF value # 0 THEN value ELSE NoNumber

\* handleNumberInput, lines 204-275; value is 1..9, or 0 to clear.
handleNumberInput(value) ==
    /\ CanInput
    /\ LET r == NumberInputResult(InputState, selectedCell[1], selectedCell[2], value)
       IN  /\ r.mistakes <= MaxMistakes
           /\ r.correctAnswers <= MaxCorrect
           /\ Len(pendingChecks) < MaxPending
           /\ board' = r.board
           /\ correctAnswers' = r.correctAnswers
           /\ mistakes' = r.mistakes
           /\ highlightedNumber' = InputHighlight(value)
           /\ pendingChecks' = Append(pendingChecks,
                                      [isComplete |-> IsComplete(r.board, solution),
                                       game |-> gameId])
    /\ UNCHANGED <<appliedData, selectedCell, clockVars, isWon,
                   hintsUsed, finalScore, dialogVars, queryVars, gameId>>
    /\ Render

\* The digits the player enters: for each empty cell of the puzzle its
\* solution and a wrong digit.
Keys == {1, 2}

\* handleKeyPress, lines 282-287: a digit key.
KeyDigit == \E num \in Keys : selectedCell # NoCell /\ ~isWon /\ handleNumberInput(num)

\* handleKeyPress, lines 289-291: Backspace or Delete.
KeyBackspace == selectedCell # NoCell /\ ~isWon /\ handleNumberInput(0)

\* A variant that counts the cells holding num and does not compare them
\* with the solution.
isNumberCompleteByCount(num) ==
    /\ board # Null /\ solution # Null
    /\ Cardinality({ c \in Cells : board[c[1]][c[2]] = num }) = 9

\* isNumberComplete, lines 554-573.
isNumberComplete(num) ==
    /\ board # Null /\ solution # Null
    /\ \A i \in Idx : \A j \in Idx : board[i][j] = num => solution[i][j] = num
    /\ Cardinality({ c \in Cells : board[c[1]][c[2]] = num }) = 9

\* A number button of the pad, lines 821-830.
NumberButton ==
    \E num \in Keys :
        /\ GameClickable
        /\ ~(isWon \/ isNumberComplete(num))
        /\ selectedCell # NoCell
        /\ handleNumberInput(num)

\* The clear button of the pad, lines 857-863.
ClearButton ==
    /\ GameClickable
    /\ ~(selectedCell = NoCell \/ isWon)
    /\ handleNumberInput(0)

\* ------------------------------------------------------------ the scores
\* difficulty.toLowerCase(), lines 394 and 461, on the names the model uses:
\* the names the program stores are lower case already.
toLowerCase(diff) ==
    CASE diff = "Easy" -> "easy"
      [] diff = "HARD" -> "hard"
      [] OTHER -> diff

\* calculateScore, lines 418-491, on the values its closure holds; the
\* multiplier is kept in quarters (easy 4, medium 6, hard 8, random 5).
Multiplier4(diff) ==
    CASE toLowerCase(diff) = "easy" -> 4
      [] toLowerCase(diff) = "medium" -> 6
      [] toLowerCase(diff) = "hard" -> 8
      [] toLowerCase(diff) = "random" -> 5
      [] OTHER -> 4

\* Math.round(score * multiplier), the multiplier given in quarters.
RoundQuarters(score, mult4) == (score * mult4 + 2) \div 4

\* A variant whose thresholds include the boundary second.
TimeBonusInclusive(t) ==
    IF t <= 180 THEN TIME_BONUS_3MIN
    ELSE IF t <= 300 THEN TIME_BONUS_5MIN
    ELSE IF t <= 600 THEN TIME_BONUS_10MIN
    ELSE IF t <= 900 THEN TIME_BONUS_15MIN
    ELSE 0

\* Lines 446-455: the time bonus.
TimeBonus(t) ==
    IF t < 180 THEN TIME_BONUS_3MIN
    ELSE IF t < 300 THEN TIME_BONUS_5MIN
    ELSE IF t < 600 THEN TIME_BONUS_10MIN
    ELSE IF t < 900 THEN TIME_BONUS_15MIN
    ELSE 0

ScoreTotal(ca, mis, hints, t, diff) ==
    LET score == BASE_SCORE + ca * CORRECT_ANSWER_BONUS - mis * MISTAKE_PENALTY
                 - hints * HINT_PENALTY + TimeBonus(t)
        isPerfect == mis = 0 /\ hints = 0
    IN  Max(0, RoundQuarters(score, Multiplier4(diff)) + (IF isPerfect THEN PERFECT_BONUS ELSE 0))

calculateScore(ca, mis, hints, t, diff) ==
    [total |-> ScoreTotal(ca, mis, hints, t, diff),
     base |-> BASE_SCORE,
     mistakePenalty |-> mis * MISTAKE_PENALTY,
     hintPenalty |-> hints * HINT_PENALTY,
     correctAnswers |-> ca,
     correctAnswerBonus |-> ca * CORRECT_ANSWER_BONUS,
     timeBonus |-> TimeBonus(t),
     multiplier4 |-> Multiplier4(diff),
     perfectBonus |-> IF mis = 0 /\ hints = 0 THEN PERFECT_BONUS ELSE 0,
     difficulty |-> diff,
     time |-> t,
     mistakes |-> mis,
     hints |-> hints]

\* A variant of the live score without the floor at 0.
calculateLiveScoreUnfloored(ca, mis, hints, diff) ==
    RoundQuarters(BASE_SCORE + ca * CORRECT_ANSWER_BONUS - mis * MISTAKE_PENALTY
                  - hints * HINT_PENALTY, Multiplier4(diff))

\* calculateLiveScore, lines 373-401.
calculateLiveScore(ca, mis, hints, diff) ==
    LET score == BASE_SCORE + ca * CORRECT_ANSWER_BONUS - mis * MISTAKE_PENALTY
                 - hints * HINT_PENALTY
    IN  Max(0, RoundQuarters(score, Multiplier4(diff)))

\* A variant of the live score that loses a point with every second.
LiveScoreTimed ==
    Max(0, calculateLiveScore(correctAnswers, mistakes, hintsUsed, difficulty) - timer)

\* calculateLiveScore() as the render calls it, lines 373-401: the callback
\* is re-created whenever one of the four values it reads changes (line 401).
LiveScore == calculateLiveScore(correctAnswers, mistakes, hintsUsed, difficulty)

\* A variant of the display that computes the live score at every read.
DisplayedScoreLive ==
    calculateLiveScore(correctAnswers, mistakes, hintsUsed, difficulty)

\* The score display, line 698.
DisplayedScore ==
    IF finalScore # Null
    THEN finalScore[1].total
    ELSE calculateLiveScore(correctAnswers, mistakes, hintsUsed, difficulty)

\* The correctAnswers the score is computed from: the value the memoized
\* calculateScore captured (line 491 leaves correctAnswers out of its
\* dependencies).
ScoreCorrectAnswers == calcCorrectAnswers

\* The effect of lines 494-498, in the render where isWon has become true.
ScoreEffect ==
    finalScore' =
        IF isWon' /\ finalScore = Null
        THEN <<calculateScore(ScoreCorrectAnswers, mistakes, hintsUsed, timer, difficulty)>>
        ELSE finalScore

\* A variant of the win that leaves the clock flag as it is.
DeclareWinClockRunning == isWon' = TRUE /\ UNCHANGED isTimerRunning

\* Lines 270-273: the win.
DeclareWin == isWon' = TRUE /\ isTimerRunning' = FALSE

\* The callback of setTimeout, lines 257-274: the oldest pending check
\* fires.  Its closure holds newBoard and solution, both never written after
\* the handler returns, so the entry keeps the outcome of its comparison
\* loop, and the session that scheduled it.
WinCheck ==
    /\ pendingChecks # <<>>
    /\ LET check == Head(pendingChecks)
       IN  IF check.isComplete
           THEN DeclareWin
           ELSE UNCHANGED <<isWon, isTimerRunning>>
    /\ pendingChecks' = Tail(pendingChecks)
    /\ UNCHANGED <<gridVars, selectedCell, timer, statVars, dialogVars,
                   highlightedNumber, queryVars, gameId>>
    /\ ScoreEffect
    /\ Render

\* ---------------------------------------------------------------- the clock
\* The interval callback of lines 125-127.
Tick ==
    /\ interval # 0
    /\ timer < MaxTimer
    /\ timer' = timer + 1
    /\ UNCHANGED <<gridVars, selectedCell, isTimerRunning, isWon, statVars, finalScore,
                   dialogVars, highlightedNumber, queryVars, pendingChecks, gameId>>
    /\ Render

\* ---------------------------------------------------------------- the hint
\* A variant that reveals any cell the puzzle left empty, filled since or not.
emptyCellsOfPuzzle == { c \in Cells : initialBoard[c[1]][c[2]] = 0 }

\* Lines 510-519: the cells a hint may reveal.
emptyCells == { c \in Cells : board[c[1]][c[2]] = 0 /\ initialBoard[c[1]][c[2]] = 0 }

\* A variant without the hint budget.
HintBudgetUnlimited == TRUE

\* Line 508: the hint budget.
HintBudgetLeft == ~(hintsUsed >= MaxHints)

\* A variant that still gives hints after the win.
HintAllowedAfterWin == ~(board = Null \/ solution = Null \/ initialBoard = Null)

\* Line 505: no hint without a puzzle, nor after the win.
HintAllowed == ~(board = Null \/ solution = Null \/ initialBoard = Null \/ isWon)

\* A variant that reveals every cell of the picked cell's row.
HintedBoardRow(row, col) == [board EXCEPT ![row] = solution[row]]

\* Lines 528-533: the board with the picked cell revealed.
HintedBoard(row, col) == SetCell(board, row, col, solution[row][col])

\* handleHint, lines 504-544; the random pick of line 525 is any element.
handleHint ==
    /\ GameClickable
    /\ HintAllowed
    /\ HintBudgetLeft
    /\ emptyCells # {}
    /\ \E randomCell \in emptyCells :
          LET row == randomCell[1]
              col == randomCell[2]
              correctValue == solution[row][col]
          IN  /\ board' = HintedBoard(row, col)
              /\ hintsUsed' = hintsUsed + 1
              /\ selectedCell' = <<row, col>>
              /\ highlightedNumber' = correctValue
    /\ UNCHANGED <<appliedData, clockVars, isWon, mistakes,
                   correctAnswers, finalScore, dialogVars, queryVars, pendingChecks, gameId>>
    /\ Render

\* ------------------------------------------------------ the New Game dialog
\* A variant of the New Game button that starts the fetch without waiting
\* for the confirmation.
handleNewGameClickFetches ==
    /\ ~isLoading
    /\ ~showNewGameModal
    /\ gameId < MaxGames
    /\ showNewGameModal' = TRUE
    /\ isFetching' = TRUE
    /\ UNCHANGED <<gridVars, selectedCell, clockVars, isWon, statVars, finalScore,
                   difficulty, highlightedNumber, hasData, queryError, pendingChecks, gameId>>
    /\ Render

\* handleNewGameClick, lines 346-349: the New Game button of the header, or
\* the Try Again / Load Puzzle button of the screens of lines 602-634.
\* selectedDifficulty (line 66) lives inside the dialog: it is set here and
\* by the dialog's buttons (line 1140) and read only by the confirm button,
\* so the dialog's choice is the parameter of handleNewGameConfirm.
handleNewGameClick ==
    /\ ~isLoading
    /\ ~showNewGameModal
    /\ gameId < MaxGames
    /\ showNewGameModal' = TRUE
    /\ UNCHANGED <<gridVars, selectedCell, clockVars, isWon, statVars, finalScore,
                   difficulty, highlightedNumber, queryVars, pendingChecks, gameId>>
    /\ Render

\* The Cancel and close buttons of the dialog, lines 1120 and 1158.
CancelNewGame ==
    /\ GameScreen /\ showNewGameModal
    /\ showNewGameModal' = FALSE
    /\ UNCHANGED <<gridVars, selectedCell, clockVars, isWon, statVars, finalScore,
                   difficulty, highlightedNumber, queryVars, pendingChecks, gameId>>
    /\ Render

\* A click on the overlay around the dialog, line 1111; the click also
\* reaches the document listener of lines 313-327.
OverlayClick ==
    /\ GameScreen /\ showNewGameModal
    /\ showNewGameModal' = FALSE
    /\ selectedCell' = NoCell
    /\ highlightedNumber' = NoNumber
    /\ UNCHANGED <<gridVars, clockVars, isWon, statVars, finalScore,
                   difficulty, queryVars, pendingChecks, gameId>>
    /\ Render

\* handleNewGameConfirm, lines 354-360, and the refetch effect of lines
\* 117-119: a new query key has no data until its fetch resolves.
handleNewGameConfirm(selectedDifficulty) ==
    /\ GameScreen /\ showNewGameModal
    /\ difficulty' = selectedDifficulty
    /\ highlightedNumber' = NoNumber
    /\ showNewGameModal' = FALSE
    /\ isFetching' = TRUE
    /\ hasData' = IF selectedDifficulty # difficulty THEN FALSE ELSE hasData
    /\ UNCHANGED <<gridVars, selectedCell, clockVars, isWon, statVars, finalScore,
                   queryError, pendingChecks, gameId>>
    /\ Render

NewGameConfirm == \E diff \in DifficultyChoices : handleNewGameConfirm(diff)

\* ------------------------------------------------------------------- Next
\* One session: the first load and the play on its puzzle.
Next ==
    \/ FetchSuccess
    \/ FetchError
    \/ CellClick
    \/ handleClickOutside
    \/ ArrowKey
    \/ KeyDigit
    \/ KeyBackspace
    \/ NumberButton
    \/ ClearButton
    \/ WinCheck
    \/ Tick
    \/ handleHint

Spec == Init /\ [][Next]_vars

\* The sessions of one page: the above and the New Game dialog.
NextLife ==
    \/ Next
    \/ handleNewGameClick
    \/ CancelNewGame
    \/ OverlayClick
    \/ NewGameConfirm

SpecLife == Init /\ [][NextLife]_vars

\* ------------------------------------------------------- scoring a win
\* The values the counters, the clock and the difficulty are drawn from for
\* the score computations: around the thresholds of the time bonus and on
\* both sides of the floor at 0.
ScoreMistakes == {0, 1, 2, 33, 34, 45, 60}
ScoreCorrect == {0, 1, 2, 3, 51}
ScoreTimes == {0, 179, 180, 299, 300, 599, 600, 899, 900}
Difficulties == {"easy", "medium", "hard", "random"}

\* The moment before a win: the last digit has been placed on the solved
\* board, its check is pending, and the session has any history of
\* mistakes, points, hints and seconds.
InitScore ==
    /\ appliedData = 1 /\ board = SolutionGrid
    /\ selectedCell = <<0, 1>>
    /\ timer \in ScoreTimes /\ isTimerRunning = TRUE /\ isWon = FALSE
    /\ mistakes \in ScoreMistakes
    /\ hintsUsed \in 0..MaxHints
    /\ correctAnswers \in ScoreCorrect
    /\ correctAnswers + hintsUsed >= Cardinality(Holes)
    /\ finalScore = Null
    /\ showNewGameModal = FALSE
    /\ difficulty \in Difficulties
    /\ highlightedNumber = SolutionGrid[0][1]
    /\ isFetching = FALSE /\ hasData = TRUE /\ queryError = FALSE
    /\ pendingChecks = << [isComplete |-> TRUE, game |-> 1] >>
    /\ interval = 1
    /\ calcCorrectAnswers \in {correctAnswers - 1, correctAnswers}
    /\ calcCorrectAnswers >= 0
    /\ gameId = 1

NextScore == WinCheck

SpecScore == InitScore /\ [][NextScore]_vars

\* ------------------------------------------------ moving over the board
\* One puzzle, and the commands that set the selection, on all 81 cells.
NextNav ==
    \/ FetchSuccess
    \/ CellClickAnywhere
    \/ ArrowKeyAnywhere
    \/ handleHint

SpecNav == Init /\ [][NextNav]_vars

\* ------------------------------------------------ a puzzle of three holes
\* One session on the puzzle of three empty cells: clicks over the whole
\* board, digits and clearing.
NextSparse ==
    \/ FetchSparse
    \/ CellClickAnywhere
    \/ KeyDigit
    \/ KeyBackspace
    \/ WinCheck

SpecSparse == Init /\ [][NextSparse]_vars

\* ------------------------------------------------ an inconsistent puzzle
\* One session whose puzzle is either the provider's first puzzle or the
\* inconsistent response.
NextInconsistent ==
    \/ Next
    \/ FetchInconsistent

SpecInconsistent == Init /\ [][NextInconsistent]_vars

\* ---------------------------------------------------------------- claims
\* The cells the puzzle left for the player.
EditableCells == { c \in Cells : initialBoard[c[1]][c[2]] = 0 }

\* The value of the selected cell on board b, and in the solution.
SelectedValue(b) == b[selectedCell[1]][selectedCell[2]]
SelectedSolution == solution[selectedCell[1]][selectedCell[2]]

\* A step of handleNumberInput: the only step that schedules a win check.
InputStep == Len(pendingChecks') = Len(pendingChecks) + 1

\* A step of handleHint: the only step that counts a hint.
HintStep == hintsUsed' = hintsUsed + 1

\* C1: every pre-filled cell (initialBoard non-zero) holds its puzzle value
\* on the board, in every state a sequence of commands reaches.
C1_PrefilledKeepPuzzleValue ==
    board # Null =>
        \A c \in Cells :
            initialBoard[c[1]][c[2]] # 0 => board[c[1]][c[2]] = puzzle[c[1]][c[2]]

\* C1's case: the selection stands on a pre-filled cell (reached with the
\* arrow keys) after placements and hints have changed the board.
C1_Witness ==
    /\ board # Null /\ selectedCell # NoCell /\ ~isWon
    /\ IsPrefilled(selectedCell[1], selectedCell[2])
    /\ board # puzzle
    /\ hintsUsed > 0 /\ mistakes > 0

\* C2: won is set to true only in a step after which the board equals the
\* solution in all 81 cells, and within a session it is never reset, so it is
\* set at most once.
C2_WonOnlyOnSolvedBoard ==
    [][ /\ (~isWon /\ isWon') => IsComplete(board', solution')
        /\ (isWon /\ ~isWon') => gameId' # gameId ]_vars

\* C3: a hint that makes the board equal to the solution sets won and stops
\* the clock, or at least schedules the check that will.
C3_HintCompletesAndWins ==
    [][ (HintStep /\ IsComplete(board', solution'))
        => \/ (isWon' /\ ~isTimerRunning')
           \/ pendingChecks' = Append(pendingChecks, [isComplete |-> TRUE, game |-> gameId]) ]_vars

\* C4: once won, no step of the same session changes the board, mistakes,
\* correctAnswers, hintsUsed, the timer or the final score.
C4_WonIsFixedPoint ==
    [][ (isWon /\ gameId' = gameId)
        => UNCHANGED <<board, mistakes, correctAnswers, hintsUsed, timer, finalScore>> ]_vars

\* C4's case: won, with the final score taken, while an editable cell is
\* selected, a cell is still empty and hints are left: but for the win, a
\* digit, a clear and a hint would all act.
C4_Witness ==
    /\ isWon /\ finalScore # Null /\ GameClickable
    /\ selectedCell # NoCell /\ ~IsPrefilled(selectedCell[1], selectedCell[2])
    /\ emptyCells # {} /\ HintBudgetLeft
    /\ timer < MaxTimer

\* C5: the final score taken at the win is calculateScore of the counters,
\* the timer and the difficulty as they are when won becomes true.
C5_FinalScoreOfWinningState ==
    [][ (finalScore = Null /\ finalScore' # Null)
        => finalScore'[1] = calculateScore(correctAnswers', mistakes', hintsUsed',
                                           timer', difficulty') ]_vars

\* C6: when the game is won on a solved board with no mistake and no hint,
\* correctAnswers is the number of cells the puzzle left empty.
C6_PerfectWinCountsEditableCells ==
    (isWon /\ mistakes = 0 /\ hintsUsed = 0 /\ IsComplete(board, solution))
        => correctAnswers = Cardinality(EditableCells)

\* C7: hintsUsed stays within 0..3, never decreases within a session, and at
\* hintsUsed = 3 a hint request does nothing.
C7_HintBudget ==
    /\ [](hintsUsed \in 0..MaxHints)
    /\ [](hintsUsed = MaxHints => ~ENABLED handleHint)
    /\ [][gameId' = gameId => hintsUsed' >= hintsUsed]_vars

\* C7's case: the three hints are used while the game goes on and a cell is
\* still empty, so that only the budget stops the next hint.
C7_Witness ==
    /\ hintsUsed = MaxHints
    /\ GameClickable /\ HintAllowed /\ emptyCells # {}

\* C8: whichever cell the hint picks, that cell was empty on the board and
\* not pre-filled just before, and it now holds its solution value.
C8_HintedCellWasEmpty ==
    [][ HintStep
        => /\ selectedCell' # NoCell
           /\ board[selectedCell'[1]][selectedCell'[2]] = 0
           /\ initialBoard[selectedCell'[1]][selectedCell'[2]] = 0
           /\ board' = SetCell(board, selectedCell'[1], selectedCell'[2],
                               solution[selectedCell'[1]][selectedCell'[2]]) ]_vars

\* C8's case: a hint has just revealed the selected cell after the player
\* filled and emptied cells, and another cell is still left to reveal.
C8_Witness ==
    /\ hintsUsed > 0 /\ selectedCell # NoCell /\ board # Null
    /\ SelectedValue(board) = SelectedSolution
    /\ highlightedNumber = SelectedSolution
    /\ correctAnswers = 0 /\ mistakes > 0
    /\ emptyCells # {}

\* Two placements of d in a row on the selected cell, as handleNumberInput
\* computes them.
PlacedTwice(d) ==
    NumberInputResult(NumberInputResult(InputState, selectedCell[1], selectedCell[2], d),
                      selectedCell[1], selectedCell[2], d)

\* The selected cell accepts a placement and is empty.
EmptyEditableSelected == CanInput /\ SelectedValue(board) = 0

\* C9, as stated: on an empty editable selected cell, placing d twice returns
\* the cell to 0 and correctAnswers and mistakes to their values, for every d.
C9_TwiceRestoresAll ==
    EmptyEditableSelected =>
        \A d \in 1..9 :
            /\ SelectedValue(PlacedTwice(d).board) = 0
            /\ PlacedTwice(d).correctAnswers = correctAnswers
            /\ PlacedTwice(d).mistakes = mistakes

\* C9, amended: placing d twice returns the cell to 0 and correctAnswers to
\* its value; mistakes returns to its value when d is the solution digit and
\* stays one higher when it is not.
C9_TwiceRestoresCellAndCorrect ==
    EmptyEditableSelected =>
        \A d \in 1..9 :
            /\ SelectedValue(PlacedTwice(d).board) = 0
            /\ PlacedTwice(d).board = board
            /\ PlacedTwice(d).correctAnswers = correctAnswers
            /\ PlacedTwice(d).mistakes = IF d = SelectedSolution THEN mistakes ELSE mistakes + 1

\* C9's case: a digit has just been placed twice on the selected cell (two
\* checks pending, the digit highlighted, the cell empty again) while the
\* player holds a point for another cell.
C9_Witness ==
    /\ EmptyEditableSelected
    /\ Len(pendingChecks) >= 2
    /\ highlightedNumber # NoNumber
    /\ correctAnswers > 0

\* C10: clearing a selected editable cell whose value is the solution digit
\* empties the cell and takes one point off correctAnswers (floored at 0),
\* as the toggle branch does.
C10_ClearRemovesPoint ==
    [][ ( /\ InputStep
          /\ highlightedNumber' = NoNumber
          /\ selectedCell # NoCell
          /\ SelectedValue(board) # 0
          /\ SelectedValue(board) = SelectedSolution )
        => /\ SelectedValue(board') = 0
           /\ correctAnswers' = RemovePoint(correctAnswers) ]_vars

\* One placement of d on the selected cell, as handleNumberInput computes it.
PlacedOnce(d) == NumberInputResult(InputState, selectedCell[1], selectedCell[2], d)

StatedMultiplier4(diff) ==
    CASE diff = "easy" -> 4
      [] diff = "medium" -> 6
      [] diff = "hard" -> 8
      [] diff = "random" -> 5
      [] OTHER -> 4

\* v is max(0, round(q / 4)): never negative, and when positive the integer
\* nearest to q / 4.
IsFlooredRound(v, q) ==
    /\ v >= 0
    /\ v > 0 => (4 * v - 2 <= q /\ q < 4 * v + 2)
    /\ v = 0 => q < 2

\* The four difficulties and a name that is none of them.
StatedDifficulties == Difficulties \cup {"expert"}

\* C12: for the counters of every state and every difficulty the live score
\* is max(0, round((10000 + 100 correctAnswers - 300 mistakes - 800 hintsUsed)
\* * multiplier)), so never negative, and it is what the display shows
\* before the win.
C12_LiveScoreFormula ==
    /\ \A diff \in StatedDifficulties :
          IsFlooredRound(calculateLiveScore(correctAnswers, mistakes, hintsUsed, diff),
                         (10000 + 100 * correctAnswers - 300 * mistakes - 800 * hintsUsed)
                             * StatedMultiplier4(diff))
    /\ finalScore = Null =>
          IsFlooredRound(DisplayedScore,
                         (10000 + 100 * correctAnswers - 300 * mistakes - 800 * hintsUsed)
                             * StatedMultiplier4(difficulty))

\* C12's case: before the win, on the hard difficulty, the penalties exceed
\* the base and the points, and the display shows 0.
C12_Witness ==
    /\ finalScore = Null /\ difficulty = "hard"
    /\ 10000 + 100 * correctAnswers - 300 * mistakes - 800 * hintsUsed < 0
    /\ hintsUsed > 0 /\ correctAnswers > 0
    /\ DisplayedScore = 0

\* The time bonus: 3000 under 180 s, 2000 under 300 s, 1000 under 600 s,
\* 500 under 900 s, else 0.
StatedTimeBonus(t) ==
    CASE t < 180 -> 3000
      [] t >= 180 /\ t < 300 -> 2000
      [] t >= 300 /\ t < 600 -> 1000
      [] t >= 600 /\ t < 900 -> 500
      [] OTHER -> 0

\* The perfect bonus: 2000 exactly when there is no mistake and no hint.
StatedPerfectBonus(mis, hints) == IF mis = 0 /\ hints = 0 THEN 2000 ELSE 0

\* total is max(0, round(q / 4) + pb).
IsFinalTotal(total, q, pb) ==
    /\ total >= 0
    /\ total > 0 => (4 * (total - pb) - 2 <= q /\ q < 4 * (total - pb) + 2)
    /\ total = 0 => q < 2 - 4 * pb

\* The product the final total rounds, in quarters.
StatedFinalQuarters(ca, mis, hints, t, diff) ==
    (10000 + 100 * ca - 300 * mis - 800 * hints + StatedTimeBonus(t)) * StatedMultiplier4(diff)

C14_BreakdownComputedOnce ==
    /\ [](finalScore # Null <=> isWon)
    /\ [](finalScore # Null => DisplayedScore = finalScore[1].total)
    /\ [][ (finalScore = Null /\ finalScore' # Null) => (~isWon /\ isWon') ]_vars
    /\ [][ (finalScore # Null /\ gameId' = gameId) => finalScore' = finalScore ]_vars

\* C14's case: after the win another win check is still to fire, and a
\* fresh calculation would give another number than the final score taken:
\* the live formula has no time bonus, and the points counted are not the
\* points recorded.
C14_Witness ==
    /\ isWon /\ finalScore # Null
    /\ pendingChecks # <<>>
    /\ finalScore[1].correctAnswers # correctAnswers
    /\ finalScore[1].total
         # calculateLiveScore(correctAnswers, mistakes, hintsUsed, difficulty)

\* A placement of this session has made the board equal to the solution and
\* its win check has not fired yet.
WinPending ==
    \E i \in DOMAIN pendingChecks :
        pendingChecks[i].isComplete /\ pendingChecks[i].game = gameId

\* C15: after a placement that makes the board equal to the solution, the
\* next step that takes effect is the win: no command and no tick comes
\* between the placement and won = true, running = false.
C15_WinCheckNotInterleaved ==
    [][ (WinPending /\ ~isWon) => (isWon' /\ ~isTimerRunning') ]_vars

\* C16: the timer changes within a session only by a tick, which adds
\* exactly 1 while running is true and won is false and leaves the board,
\* the counters, the selection, the highlight and the difficulty alone;
\* when running is false or won is true no tick acts.
C16_TickOnlyAdvancesClock ==
    /\ []((~isTimerRunning \/ isWon) => ~ENABLED Tick)
    /\ [][ (timer' # timer /\ gameId' = gameId)
           => /\ isTimerRunning /\ ~isWon
              /\ timer' = timer + 1
              /\ UNCHANGED <<board, mistakes, hintsUsed, correctAnswers, selectedCell,
                             highlightedNumber, difficulty, isWon, isTimerRunning,
                             finalScore, pendingChecks>> ]_vars

\* C16's case: a tick has advanced the clock in the middle of the play, a
\* cell selected, a mistake and a hint counted and a win check pending.
C16_Witness ==
    /\ timer > 0 /\ isTimerRunning /\ ~isWon
    /\ selectedCell # NoCell /\ pendingChecks # <<>>
    /\ mistakes > 0 /\ hintsUsed > 0

\* C17: running is false before the first puzzle is loaded; every
\* initialize sets it; from then on it is true exactly while the session is
\* not won; and in a won session it stays false and the timer stays as it
\* is, until the next initialize.
C17_RunningLifecycle ==
    /\ [](gameId = 0 => ~isTimerRunning)
    /\ [](gameId > 0 => (isTimerRunning <=> ~isWon))
    /\ [][ gameId' # gameId => (isTimerRunning' /\ ~isWon' /\ timer' = 0) ]_vars
    /\ [][ (isWon /\ gameId' = gameId) => (~isTimerRunning' /\ timer' = timer) ]_vars

\* C17's case: the second session of the page is won with time left on the
\* explored clock, and a win check is still to fire.
C17_Witness ==
    /\ gameId = 2 /\ isWon /\ ~isTimerRunning
    /\ IsComplete(board, solution) /\ correctAnswers > 0
    /\ timer < MaxTimer /\ interval = 0
    /\ pendingChecks # <<>>

\* A step of initialize: a puzzle is loaded.
InitializeStep == gameId' # gameId

\* A step of the interval callback: the only step that adds to the timer.
TickStep == timer' = timer + 1 /\ gameId' = gameId

\* C18: every tick that advances the timer of a session comes from an
\* interval created in that session: the interval of the session before is
\* cancelled when initialize replaces it.
C18_NoTickFromEarlierSession ==
    [][ TickStep => interval = gameId ]_vars

\* C19: after initialize, whatever the state before, the board and the
\* initial board are the puzzle, the counters and the timer are 0, won is
\* false, running is true, the final score is absent, and the selected cell
\* and the highlighted digit are both cleared.
C19_InitializeResetsAll ==
    [][ InitializeStep
        => /\ board' = puzzle' /\ initialBoard' = puzzle'
           /\ puzzle' = AllResponses[appliedData'].puzzle
           /\ solution' = AllResponses[appliedData'].solution
           /\ mistakes' = 0 /\ correctAnswers' = 0 /\ hintsUsed' = 0 /\ timer' = 0
           /\ ~isWon' /\ isTimerRunning' /\ finalScore' = Null
           /\ selectedCell' = NoCell
           /\ highlightedNumber' = NoNumber ]_vars

\* A puzzle and a solution initialize may accept: 9x9 grids, the puzzle of
\* digits 0..9 and the solution of digits 1..9, equal wherever the puzzle is
\* not 0.
IsValidPair(p, sol) ==
    /\ DOMAIN p = Idx /\ DOMAIN sol = Idx
    /\ \A i \in Idx :
          /\ DOMAIN p[i] = Idx /\ DOMAIN sol[i] = Idx
          /\ \A j \in Idx :
                /\ p[i][j] \in 0..9
                /\ sol[i][j] \in 1..9
                /\ p[i][j] # 0 => p[i][j] = sol[i][j]

\* C20: initialize refuses a puzzle and solution that are malformed or
\* contradict each other at a pre-filled cell and leaves the session as it
\* was: the session never holds such a pair.
C20_InvalidPuzzleRefused ==
    puzzle # Null => IsValidPair(puzzle, solution)

\* A step of handleNewGameConfirm: the dialog closes and a fetch starts.
RequestStep == showNewGameModal /\ ~showNewGameModal' /\ isFetching'

\* A step in which the fetch of a request fails.
FetchFailStep == gameId > 0 /\ isFetching /\ ~isFetching' /\ gameId' = gameId

\* C21: a request for a new game whose fetch fails leaves the session as it
\* was before the request: neither the request nor the failure changes the
\* board, the initial board, the counters, won, the difficulty the scores
\* are computed with, or the selection, and no part of a new puzzle is
\* applied.
C21_FailedRequestKeepsSession ==
    [][ (RequestStep \/ FetchFailStep)
        => UNCHANGED <<board, appliedData, mistakes, correctAnswers, hintsUsed,
                       isWon, difficulty, selectedCell>> ]_vars

\* The selection stands on a cell the puzzle filled.
PrefilledSelected ==
    /\ board # Null /\ selectedCell # NoCell
    /\ IsPrefilled(selectedCell[1], selectedCell[2])

\* C22: placing or clearing with no selected cell or with a pre-filled cell
\* selected, and asking for a hint with the three hints used or with no
\* empty editable cell, is a silent no-op: no key, pad button or hint button
\* changes the board, the counters, the selection, the highlight or won in
\* such a state.
C22_SilentNoOps ==
    /\ (selectedCell = NoCell \/ PrefilledSelected)
       => ~ENABLED (KeyDigit \/ KeyBackspace \/ NumberButton \/ ClearButton)
    /\ (board = Null \/ hintsUsed = MaxHints \/ emptyCells = {})
       => ~ENABLED handleHint

\* C22's case: in a game not won, with the hint button and the pad on
\* screen, a pre-filled cell is selected, the three hints are used and an
\* editable cell is empty.
C22_Witness ==
    /\ GameClickable /\ ~isWon
    /\ PrefilledSelected
    /\ hintsUsed = MaxHints /\ emptyCells # {}
    /\ Len(pendingChecks) < MaxPending

\* The cells of the board that hold digit d.
CellsHolding(d) == { c \in Cells : board[c[1]][c[2]] = d }

\* C23: for every digit d, isDigitComplete(d) is true exactly when nine
\* cells of the board hold d and each of them holds the solution's digit;
\* and when one of the cells of a complete digit is cleared the digit is
\* not complete any more.
C23_DigitCompleteIffNineCorrect ==
    /\ [](board # Null =>
            \A d \in 1..9 :
                LET held == CellsHolding(d)
                IN  isNumberComplete(d)
                    <=> /\ Cardinality(held) = 9
                        /\ \A c \in held : solution[c[1]][c[2]] = board[c[1]][c[2]])
    /\ [][ (board # Null /\ board' # board)
           => \A d \in 1..9 :
                 (/\ isNumberComplete(d)
                  /\ \E c \in CellsHolding(d) : board'[c[1]][c[2]] = 0)
                 => ~isNumberComplete(d)' ]_vars

\* C23's case: the player has completed a digit by placing its last cell,
\* which is selected and can be cleared, in a game that is not won.
C23_Witness ==
    /\ board # Null /\ ~isWon
    /\ selectedCell # NoCell
    /\ ~IsPrefilled(selectedCell[1], selectedCell[2])
    /\ SelectedValue(board) # 0
    /\ isNumberComplete(SelectedValue(board))
    /\ Len(pendingChecks) < MaxPending

\* C24: the counters of mistakes and of correct answers are never negative,
\* also after a correct cell revealed by a hint is cleared while no correct
\* answer is counted.
C24_CountersNonNegative ==
    mistakes >= 0 /\ correctAnswers >= 0

\* C24's case: a hint has revealed a cell and the player has cleared it by
\* entering its digit again (the digit stays highlighted), no correct
\* answer being counted: every editable cell is empty again.
C24_Witness ==
    /\ board # Null /\ hintsUsed = 1 /\ mistakes = 0 /\ correctAnswers = 0
    /\ emptyCells = EditableCells
    /\ selectedCell # NoCell
    /\ highlightedNumber = SelectedSolution
    /\ calcCorrectAnswers = 0
    /\ Len(pendingChecks) = 1

\* The editable cells that hold the solution's digit.
CorrectCells == { c \in EditableCells : board[c[1]][c[2]] = solution[c[1]][c[2]] }

\* C25: correctAnswers is at most the number of editable cells that hold
\* the solution's digit: however digits are placed, overwritten, cleared
\* and placed again, no cell's correct answer is counted more than once.
C25_CorrectAnswersWithinCorrectCells ==
    board # Null => correctAnswers <= Cardinality(CorrectCells)

\* C26: a hint that acts changes exactly one cell of the board, from 0 to
\* the solution's digit, adds exactly 1 to hintsUsed, selects that cell and
\* highlights the revealed digit, and leaves mistakes, correctAnswers, the
\* timer and every other cell of the board unchanged.
C26_HintFrame ==
    [][ HintStep
        => /\ \E c \in Cells :
                /\ board[c[1]][c[2]] = 0
                /\ board'[c[1]][c[2]] = solution[c[1]][c[2]]
                /\ board'[c[1]][c[2]] # 0
                /\ \A o \in Cells \ {c} : board'[o[1]][o[2]] = board[o[1]][o[2]]
                /\ selectedCell' = c
                /\ highlightedNumber' = solution[c[1]][c[2]]
           /\ hintsUsed' = hintsUsed + 1
           /\ UNCHANGED <<mistakes, correctAnswers, timer>> ]_vars

\* C26's case: a hint has been given in the middle of the play: a mistake
\* and a correct answer are counted, the clock has advanced, the selected
\* cell holds the solution's digit, highlighted, and a cell is still empty.
C26_Witness ==
    /\ hintsUsed > 0 /\ mistakes > 0 /\ correctAnswers > 0 /\ timer > 0
    /\ selectedCell # NoCell
    /\ SelectedValue(board) = SelectedSolution
    /\ highlightedNumber = SelectedSolution
    /\ emptyCells # {}
    /\ pendingChecks = <<>>

\* A step in which a win check scheduled in an earlier session fires in a
\* session that is not won.
StaleCheckStep ==
    /\ pendingChecks # <<>> /\ pendingChecks' = Tail(pendingChecks)
    /\ Head(pendingChecks).game # gameId
    /\ ~isWon

\* C27: a win check scheduled by a placement in one session never sets won
\* nor stops the clock of a later session: when initialize has replaced the
\* session before the check runs, the new session is still not won and its
\* clock still runs after the check.
C27_StaleCheckLeavesNewSession ==
    [][ StaleCheckStep => (~isWon' /\ isTimerRunning') ]_vars

\* A session that is not won, every cell of its board filled, no cell
\* selected and no win check left to fire.
DeadEnd ==
    /\ board # Null /\ ~isWon
    /\ \A c \in Cells : board[c[1]][c[2]] # 0
    /\ selectedCell = NoCell
    /\ pendingChecks = <<>>

\* C28: no session reaches a dead end, a state that is not won in which
\* every cell of the board is filled and no cell is selected, so that no
\* cell click, arrow key, placement, clearing or hint can change the board.
C28_NoDeadEnd == ~DeadEnd

HighlightedCells ==
    { c \in NavCells : highlightedNumber # NoNumber /\ board[c[1]][c[2]] = highlightedNumber }

\* C30: highlightDigit(d) is a toggle.  When d is highlighted already the
\* highlight is cleared, otherwise d becomes the highlight and the
\* selection is cleared; so a second highlightDigit(d), after the one that
\* set the highlight from none, leaves no highlight: in every state where d
\* is highlighted, the click on a cell holding d has exactly one outcome,
\* the empty highlight.
C30_HighlightToggle ==
    /\ [][ \A c \in NavCells :
              (board # Null /\ board[c[1]][c[2]] # 0 /\ handleCellClick(c[1], c[2]))
              => IF highlightedNumber = board[c[1]][c[2]]
                 THEN highlightedNumber' = NoNumber
                 ELSE /\ highlightedNumber' = board[c[1]][c[2]]
                      /\ selectedCell' = NoCell ]_vars
    /\ []((board # Null /\ GameClickable)
          => \A c \in HighlightedCells :
                /\ ENABLED (handleCellClick(c[1], c[2]) /\ highlightedNumber' = NoNumber)
                /\ ~ENABLED (handleCellClick(c[1], c[2]) /\ highlightedNumber' # NoNumber))

\* C30's case: from no highlight, a click on a filled cell has highlighted
\* its digit and cleared the selection, and a cell holding the digit is
\* there to click a second time; a hint has been given.
C30_Witness ==
    /\ board # Null /\ GameClickable
    /\ selectedCell = NoCell
    /\ HighlightedCells # {}
    /\ hintsUsed > 0

\* A cell is selected and a digit is highlighted.
BothActive == selectedCell # NoCell /\ highlightedNumber # NoNumber

\* C31 as stated: in every reachable state at most one of selectedCell and
\* highlightedDigit is set.
C31_AtMostOneActive == ~BothActive

\* C31, amended: a click on a cell leaves at most one of selectedCell and
\* highlightedDigit set; a placement that leaves a digit in the cell and a
\* hint leave both set, the selection on the cell and the highlight on its
\* digit.
C31_OnlyClicksLeaveAtMostOne ==
    /\ [][ \A c \in NavCells :
              (board # Null /\ handleCellClick(c[1], c[2])) => ~BothActive' ]_vars
    /\ [][ ((InputStep /\ SelectedValue(board') # 0) \/ HintStep)
           => /\ BothActive'
              /\ highlightedNumber' = board'[selectedCell'[1]][selectedCell'[2]] ]_vars

\* C31's case: a digit typed into the selected cell is highlighted while
\* the cell stays selected, a hint having been given before.
C31_Witness ==
    /\ BothActive
    /\ SelectedValue(board) = highlightedNumber
    /\ hintsUsed > 0 /\ pendingChecks # <<>>

\* C32: after a placement or a clearing that changes the board, the
\* highlighted digit is the digit now in the cell when the cell holds one,
\* and there is no highlight when the cell is left empty, whether it was
\* emptied by clearCell or by placing its digit a second time.
C32_HighlightFollowsCell ==
    [][ (InputStep /\ board' # board)
        => highlightedNumber' = IF SelectedValue(board') # 0
                                THEN SelectedValue(board')
                                ELSE NoNumber ]_vars

\* A step that opens the New Game dialog, or closes it without confirming.
DialogOnlyStep == showNewGameModal' # showNewGameModal /\ ~RequestStep

\* C33: opening the New Game dialog and cancelling it leave the board, the
\* puzzle, the counters, the clock, the difficulty, won and the final score
\* unchanged; a fetch is started only by the confirm button, and the
\* session is replaced only when the puzzle of such a fetch is received.
C33_DialogKeepsSession ==
    /\ [][ DialogOnlyStep
           => UNCHANGED <<board, appliedData, mistakes, correctAnswers, hintsUsed,
                          timer, isTimerRunning, difficulty, isWon, finalScore>> ]_vars
    /\ [][ (~isFetching /\ isFetching') => RequestStep ]_vars
    /\ [][ (appliedData' # appliedData \/ InitializeStep)
           => (isFetching /\ ~isFetching' /\ InitializeStep) ]_vars

\* C33's case: the dialog is open in the middle of the play, with a
\* mistake, a hint and a second counted, a digit on the board and no fetch
\* in flight: Cancel and Start New Game can both be pressed.
C33_Witness ==
    /\ showNewGameModal /\ GameScreen /\ ~isFetching
    /\ gameId = 1 /\ ~isWon
    /\ mistakes > 0 /\ hintsUsed > 0 /\ timer > 0
    /\ emptyCells # EditableCells

\* C34: the live score depends only on correctAnswers, mistakes, hintsUsed
\* and the difficulty: a tick of the clock never changes it, and no step
\* that leaves the four values as they are changes it, whatever it does to
\* the timer, the board, the selection, the highlight, won and the final
\* score.
C34_LiveScoreDependsOnFour ==
    /\ [][ TickStep => LiveScore' = LiveScore ]_vars
    /\ [][ UNCHANGED <<correctAnswers, mistakes, hintsUsed, difficulty>>
           => LiveScore' = LiveScore ]_vars

\* C34's case: the clock has ticked in a game that is not won, with a
\* correct answer, a mistake and a hint in the live score.
C34_Witness ==
    /\ timer > 0 /\ ~isWon /\ finalScore = Null
    /\ correctAnswers > 0 /\ mistakes > 0 /\ hintsUsed > 0
    /\ LiveScore # BASE_SCORE

\* The arrow key would leave the board from the selected cell.
AtEdge(key) ==
    \/ key = "ArrowUp" /\ selectedCell[1] = 0
    \/ key = "ArrowDown" /\ selectedCell[1] = 8
    \/ key = "ArrowLeft" /\ selectedCell[2] = 0
    \/ key = "ArrowRight" /\ selectedCell[2] = 8

\* C35: whenever a cell is selected its row and its column are in 0..8,
\* after any sequence of cell clicks, hints and arrow keys; an arrow key
\* at an edge of the board leaves the selection as it is, and elsewhere it
\* moves the selection by one cell.
C35_SelectionOnBoard ==
    /\ [](selectedCell # NoCell => (selectedCell[1] \in 0..8 /\ selectedCell[2] \in 0..8))
    /\ [][ \A key \in ArrowKeys :
              (selectedCell # NoCell /\ moveSelection(key))
              => IF AtEdge(key)
                 THEN selectedCell' = selectedCell
                 ELSE selectedCell' # selectedCell /\ selectedCell' \in Cells ]_vars

\* C35's case: the arrow keys have taken the selection to the last cell of
\* the board, where two of them are at an edge.
C35_Witness ==
    /\ selectedCell = <<8, 8>>
    /\ AtEdge("ArrowDown") /\ AtEdge("ArrowRight")
    /\ ENABLED moveSelection("ArrowDown")

\* The row, the column and the 3x3 box of cell (r, c), the box given by its
\* first row and column.
StatedRelated(r, c) ==
    LET boxRow == r - (r % 3)
        boxCol == c - (c % 3)
    IN  { <<r, j>> : j \in Idx } \cup { <<i, c>> : i \in Idx }
        \cup ((boxRow..(boxRow + 2)) \X (boxCol..(boxCol + 2)))

\* C36: for every selected cell (r, c) the related cells are exactly the
\* cells of its row, of its column and of its 3x3 box, 21 cells with the
\* selected cell among them; with no cell selected no cell is related.
C36_RelatedCells ==
    IF selectedCell = NoCell
    THEN relatedCells = {}
    ELSE /\ relatedCells = StatedRelated(selectedCell[1], selectedCell[2])
         /\ Cardinality(relatedCells) = 21
         /\ selectedCell \in relatedCells

\* C36's case: the selected cell is the middle cell of a box, whose four
\* corner cells are related by the box alone.
C36_Witness ==
    /\ selectedCell = <<4, 7>>
    /\ <<3, 6>> \in relatedCells /\ <<5, 8>> \in relatedCells
    /\ <<3, 5>> \notin relatedCells

\* Some cell other than (row, col) in its row, its column or its 3x3 box
\* holds value.
HeldNearby(row, col, value) ==
    \E o \in StatedRelated(row, col) \ {<<row, col>>} : board[o[1]][o[2]] = value

\* C37: for every board, every cell and every value in 1..9, isValidMove is
\* false exactly when another cell of the same row, the same column or the
\* same 3x3 box holds the value; for the value 0 it is true.
C37_ValidMoveIffNoDuplicate ==
    board # Null =>
        \A c \in Cells :
            /\ isValidMove(c[1], c[2], 0)
            /\ \A value \in 1..9 :
                  ~isValidMove(c[1], c[2], value) <=> HeldNearby(c[1], c[2], value)

\* C37's case: on a board with cells empty, a value is refused at the
\* selected cell because of a cell of its box that is neither on its row
\* nor on its column, the value being absent from both; another value is
\* accepted there; and a cell accepts the value it holds itself.
C37_Witness ==
    /\ board # Null /\ selectedCell = <<0, 0>>
    /\ board[0][0] = 0 /\ board[1][1] = 5
    /\ \A j \in Idx : board[0][j] # 5
    /\ \A i \in Idx : board[i][0] # 5
    /\ ~isValidMove(0, 0, 5)
    /\ isValidMove(0, 0, 1)
    /\ isValidMove(1, 1, 5)
====
